---- MODULE Spec2Model ----
(***************************************************************************)
(* State-machine model of src/main.py: a Telegram bot that collects        *)
(* bicycle inspection records through an "add" conversation, edits them    *)
(* through an "update" conversation and deletes them by Serial ID, over a  *)
(* CSV file that is read and rewritten whole.                              *)
(*                                                                         *)
(* Texts are sequences of characters (one-character strings), so that      *)
(* str.isdigit, int, str.lower and ' '.join are computed, not assumed.     *)
(* A participant is one user in a private chat: the conversation key and   *)
(* user_data of python-telegram-bot then coincide.                         *)
(***************************************************************************)
EXTENDS Integers, Sequences, FiniteSets, TLC

(***************************************************************************)
(* Bounds of the model.                                                    *)
(***************************************************************************)
\* the add commit is not offered once the store holds MaxStore rows
MaxStore == 2
\* at most MaxFilled optional fields, of all records in progress and stored,
\* hold a value other than "N/A"
MaxFilled == 1

(***************************************************************************)
(* Text literals of the source.                                            *)
(***************************************************************************)
Skip == <<"S", "k", "i", "p">>
Back == <<"B", "a", "c", "k">>
Cancel == <<"C", "a", "n", "c", "e", "l">>
NA == <<"N", "/", "A">>
TrueText == <<"t", "r", "u", "e">>
FalseText == <<"f", "a", "l", "s", "e">>
\* Python's None (message.text of a location message, message.location of a
\* text message); it is no text: no character is "None"
None == <<"None">>

SerialID == <<"S", "e", "r", "i", "a", "l", " ", "I", "D">>
InventoryTag == <<"I", "n", "v", "e", "n", "t", "o", "r", "y", " ", "T", "a", "g">>
PedalingRate == <<"P", "e", "d", "a", "l", "i", "n", "g", " ", "R", "a", "t", "e">>
LeftBrakeRate == <<"L", "e", "f", "t", " ", "B", "r", "a", "k", "e", " ", "R", "a", "t", "e">>
RightBrakeRate == <<"R", "i", "g", "h", "t", " ", "B", "r", "a", "k", "e", " ", "R", "a", "t", "e">>
TiresRate == <<"T", "i", "r", "e", "s", " ", "R", "a", "t", "e">>
AppearenceRate == <<"A", "p", "p", "e", "a", "r", "e", "n", "c", "e", " ", "R", "a", "t", "e">>
BatteryLevel == <<"B", "a", "t", "t", "e", "r", "y", " ", "L", "e", "v", "e", "l">>
ParkingAngel == <<"I", "s", " ", "S", "t", "r", "a", "i", "g", "h", "t", " ", "P", "a", "r", "k", "i", "n", "g", " ", "A", "n", "g", "e", "l">>
SeatHight == <<"S", "e", "a", "t", " ", "H", "i", "g", "h", "t">>
Location == <<"L", "o", "c", "a", "t", "i", "o", "n">>
SpeedRate == <<"S", "p", "e", "e", "d", " ", "R", "a", "t", "e">>
Note == <<"N", "o", "t", "e">>
Date == <<"D", "a", "t", "e">>

CSV_COLUMNS ==
    << SerialID, InventoryTag, PedalingRate, LeftBrakeRate, RightBrakeRate,
       TiresRate, AppearenceRate, BatteryLevel, ParkingAngel, SeatHight,
       Location, SpeedRate, Note, Date >>

Columns == { CSV_COLUMNS[i] : i \in 1..Len(CSV_COLUMNS) }

(***************************************************************************)
(* Conversation states (range(15)) and ConversationHandler.END.            *)
(***************************************************************************)
SERIAL_ID == 0
INVENTORY_TAG == 1
LOCATION == 2
PARKING_ANGEL == 3
TIRES_RATE == 4
SEAT_HEIGHT == 5
APPEARENCE_RATE == 6
BATTERY_LEVEL == 7
LEFT_BRAKE_RATE == 8
RIGHT_BRAKE_RATE == 9
PEDALING_RATE == 10
SPEED_RATE == 11
NOTE == 12
UPDATE_FIELD == 13
UPDATE_VALUE == 14
\* no conversation in progress: the handler returned ConversationHandler.END
\* or was never entered
END == -1

(***************************************************************************)
(* Python string functions, on sequences of characters.                    *)
(***************************************************************************)
AsciiDigits == <<"0", "1", "2", "3", "4", "5", "6", "7", "8", "9">>
UpperCase == <<"A", "B", "C", "D", "E", "F", "G", "H", "I", "J", "K", "L", "M",
               "N", "O", "P", "Q", "R", "S", "T", "U", "V", "W", "X", "Y", "Z">>
LowerCase == <<"a", "b", "c", "d", "e", "f", "g", "h", "i", "j", "k", "l", "m",
               "n", "o", "p", "q", "r", "s", "t", "u", "v", "w", "x", "y", "z">>

IndexIn(seq, ch) == CHOOSE i \in 1..Len(seq) : seq[i] = ch
Occurs(seq, ch) == \E i \in 1..Len(seq) : seq[i] = ch

\* Characters outside ASCII that str.isdigit accepts: "U+0663" (ARABIC-INDIC
\* DIGIT THREE) is a decimal digit, int reads it as 3; "U+00B2" (SUPERSCRIPT
\* TWO) is a digit but no decimal, int raises ValueError on it.
IsDecimalChar(ch) == Occurs(AsciiDigits, ch) \/ ch = "U+0663"
IsDigitChar(ch) == IsDecimalChar(ch) \/ ch = "U+00B2"
DecimalValue(ch) == IF ch = "U+0663" THEN 3 ELSE IndexIn(AsciiDigits, ch) - 1

\* str.isdigit(): non-empty and every character a digit
isdigit(s) == Len(s) > 0 /\ \A i \in 1..Len(s) : IsDigitChar(s[i])

\* int(s) raises ValueError: s passed isdigit but holds a non-decimal digit
IntRaises(s) == \E i \in 1..Len(s) : ~IsDecimalChar(s[i])

RECURSIVE int(_)
int(s) == IF s = <<>> THEN 0
          ELSE 10 * int(SubSeq(s, 1, Len(s) - 1)) + DecimalValue(s[Len(s)])

lowerChar(ch) == IF Occurs(UpperCase, ch) THEN LowerCase[IndexIn(UpperCase, ch)] ELSE ch

\* mutant: the text is compared and stored as typed
lower_AsTyped(s) == s

lower(s) == [i \in 1..Len(s) |-> lowerChar(s[i])]

\* ' '.join(args)
RECURSIVE join(_)
join(args) == IF Len(args) = 0 THEN <<>>
              ELSE IF Len(args) = 1 THEN args[1]
              ELSE args[1] \o <<" ">> \o join(Tail(args))


\* str.split(): the words of s, the runs of whitespace between them dropped
RECURSIVE split(_)
split(s) ==
    IF s = <<>> THEN <<>>
    ELSE IF Head(s) = " " THEN split(Tail(s))
    ELSE LET n == CHOOSE k \in 1..Len(s) :
                     /\ \A i \in 1..k : s[i] # " "
                     /\ k = Len(s) \/ s[k + 1] = " "
         IN  <<SubSeq(s, 1, n)>> \o split(SubSeq(s, n + 1, Len(s)))

\* str(n) for a natural number
RECURSIVE str(_)
str(n) == IF n < 10 THEN <<AsciiDigits[n + 1]>>
          ELSE str(n \div 10) \o <<AsciiDigits[(n % 10) + 1]>>

\* A float of the transport is <<neg, whole, frac>>: its sign, integer part
\* and the digits of its shortest decimal fraction; FloatStr is how an
\* f-string renders it (repr): "41.4", "-2.0"
FloatStr(x) == (IF x[1] THEN <<"-">> ELSE <<>>) \o str(x[2]) \o <<".">> \o x[3]

\* message.location is <<latitude, longitude>>
latitude(l) == l[1]
longitude(l) == l[2]
\* f"{latitude}, {longitude}"
location_text(l) == FloatStr(latitude(l)) \o <<",", " ">> \o FloatStr(longitude(l))

(***************************************************************************)
(* dict operations                                                         *)
(***************************************************************************)
EmptyDict == [k \in {} |-> None]
DictSet(d, k, v) == [x \in (DOMAIN d) \cup {k} |-> IF x = k THEN v ELSE d[x]]
DictDel(d, k) == [x \in (DOMAIN d) \ {k} |-> d[x]]

(***************************************************************************)
(* State.                                                                  *)
(*   store      the rows of research_data.csv below the header, in order;  *)
(*              a row maps every column of CSV_COLUMNS to a text           *)
(*   addState   per participant, the state of the add ConversationHandler  *)
(*   updState   per participant, the state of the update handler           *)
(*   user_data  per participant, context.user_data: a dict over the keys   *)
(*              research_data, update_serial_id, update_record,            *)
(*              update_field                                               *)
(*   inbound    the update that was handled last: who sent it, its kind    *)
(*              ("text", "location" or the command) and its body (the      *)
(*              text, the location or the command's arguments)             *)
(*   reply      the messages sent back while that update was handled       *)
(***************************************************************************)
VARIABLES store, addState, updState, user_data, inbound, reply

vars == <<store, addState, updState, user_data, inbound, reply>>

Users == {"u1", "u2"}

(***************************************************************************)
(* The CSV file: csv.DictWriter writes every row in CSV_COLUMNS order,     *)
(* a missing key as restval '' and None as ''; a key outside CSV_COLUMNS   *)
(* raises ValueError.  csv.DictReader gives back one dict per row.         *)
(***************************************************************************)
WriteRow(d) ==
    [c \in Columns |-> IF c \in DOMAIN d
                       THEN (IF d[c] = None THEN <<>> ELSE d[c])
                       ELSE <<>>]

WriteRaises(data) == \E i \in 1..Len(data) : ~((DOMAIN data[i]) \subseteq Columns)

\* mutant: the rewrite keeps only the last row
write_csv_LastOnly(data) ==
    IF data = <<>> THEN <<>> ELSE <<WriteRow(data[Len(data)])>>

write_csv(data) == [i \in 1..Len(data) |-> WriteRow(data[i])]

read_csv == store

(***************************************************************************)
(* What a handler does besides its own assignments.                        *)
(***************************************************************************)
Says(u, msgs) == reply' = msgs

\* An exception leaves the handler: the ConversationHandler keeps the state,
\* error_handler notifies the participant.
Raises(u) ==
    /\ Says(u, <<"An error occurred. Please try again.">>)
    /\ UNCHANGED <<store, addState, updState, user_data>>

HasData(u) == "research_data" \in DOMAIN user_data[u]
research_data(u) == user_data[u]["research_data"]

\* the add handler returns state s after sending msg
AddReturns(u, s, msg) ==
    /\ addState' = [addState EXCEPT ![u] = s]
    /\ Says(u, <<msg>>)
    /\ UNCHANGED <<store, updState>>

\* context.user_data['research_data'][col] = v
SetField(u, col, v) ==
    user_data' = [user_data EXCEPT
                    ![u] = DictSet(@, "research_data", DictSet(@["research_data"], col, v))]

\* mutant: 'Skip' overwrites a value the record holds
SetIfAbsent_Overwrites(u, col) == SetField(u, col, NA)

\* mutant: 'Skip' moves on and sets nothing
SetIfAbsent_SetsNothing(u, col) == UNCHANGED user_data

\* if col not in research_data: research_data[col] = 'N/A'
SetIfAbsent(u, col) ==
    IF col \in DOMAIN research_data(u)
    THEN UNCHANGED user_data
    ELSE SetField(u, col, NA)


(***************************************************************************)
(* Inbound updates.  A text message has text and no location, a location   *)
(* message has a location and no text.  Telegram sends no empty text and   *)
(* filters.TEXT & ~filters.COMMAND passes no text that starts a command.   *)
(***************************************************************************)
TextMsg(t) == [text |-> t, location |-> None]
LocationMsg(l) == [text |-> None, location |-> l]

\* an identifier no record is ever stored under
B1 == <<"B", "1">>
Locations == { << <<FALSE, 41, <<"4">> >>, <<TRUE, 2, <<"0">> >> >> }

\* what the participants type or press, per step
SerialTexts == {Cancel, Back, Skip}
FreeTexts == {Skip, Back, <<"o", "k">>}
LocationUpdates == {TextMsg(Skip), TextMsg(Back), TextMsg(<<"h", "e", "r", "e">>)}
                      \cup {LocationMsg(l) : l \in Locations}
BooleanTexts == {Skip, Back, <<"T", "r", "u", "e">>, <<"n", "o">>}
RateTexts == {Skip, Back, <<"7">>, <<"1", "1">>}
SeatTexts == {Skip, Back, <<"7">>, <<"0">>}
BatteryTexts == {Skip, Back, <<"4">>, <<"7">>}
\* datetime.now().strftime("%Y-%m-%d %H:%M:%S") at the commit
Clock == { <<"2", "0", "2", "6", "-", "0", "1", "-", "0", "1", " ",
             "1", "0", ":", "0", "0", ":", "0", "0">> }

(***************************************************************************)
(* The add conversation.                                                   *)
(***************************************************************************)
add_start(u) ==
    \* entry point of add_handler: matched only while no add conversation of u
    \* is in progress (allow_reentry is off)
    /\ addState[u] = END
    /\ user_data' = [user_data EXCEPT ![u] = DictSet(@, "research_data", EmptyDict)]
    /\ AddReturns(u, SERIAL_ID, "Enter Serial ID:")

\* mutant: the record is written to the file as soon as it has a Serial ID
add_serial_id_Persists(u, t) ==
    /\ addState[u] = SERIAL_ID
    /\ IF t = Cancel
       THEN /\ user_data' = [user_data EXCEPT ![u] = EmptyDict]
            /\ AddReturns(u, END, "Cancelled")
       ELSE /\ SetField(u, SerialID, t)
            /\ store' = write_csv(Append(read_csv,
                                          [c \in Columns |-> IF c = SerialID THEN t ELSE NA]))
            /\ addState' = [addState EXCEPT ![u] = INVENTORY_TAG]
            /\ Says(u, <<"Enter Inventory Tag:">>)
            /\ UNCHANGED updState

\* mutant: the control tokens are not taken as a Serial ID
add_serial_id_RefusesTokens(u, t) ==
    /\ addState[u] = SERIAL_ID
    /\ IF t = Cancel
       THEN /\ user_data' = [user_data EXCEPT ![u] = EmptyDict]
            /\ AddReturns(u, END, "Cancelled")
       ELSE IF t \in {Back, Skip}
       THEN /\ AddReturns(u, SERIAL_ID, "Enter Serial ID:")
            /\ UNCHANGED user_data
       ELSE /\ SetField(u, SerialID, t)
            /\ AddReturns(u, INVENTORY_TAG, "Enter Inventory Tag:")

add_serial_id(u, t) ==
    /\ addState[u] = SERIAL_ID
    /\ IF t = Cancel
       THEN /\ user_data' = [user_data EXCEPT ![u] = EmptyDict]
            /\ AddReturns(u, END, "Cancelled")
       ELSE IF ~HasData(u)
       THEN Raises(u)
       ELSE /\ SetField(u, SerialID, t)
            /\ AddReturns(u, INVENTORY_TAG, "Enter Inventory Tag:")

add_inventory_tag(u, t) ==
    /\ addState[u] = INVENTORY_TAG
    /\ IF t = Skip
       THEN IF ~HasData(u) THEN Raises(u)
            ELSE /\ SetIfAbsent(u, InventoryTag)
                 /\ AddReturns(u, LOCATION, "Location:")
       ELSE IF t = Back
       THEN /\ AddReturns(u, SERIAL_ID, "Enter Serial ID:")
            /\ UNCHANGED user_data
       ELSE IF ~HasData(u) THEN Raises(u)
            ELSE /\ SetField(u, InventoryTag, t)
                 /\ AddReturns(u, LOCATION, "Location:")

\* mutant: 'Skip' is taken as a text that is no location
add_location_AbsorbsSkip(u, m) ==
    /\ addState[u] = LOCATION
    /\ IF m.text = Back
       THEN /\ AddReturns(u, INVENTORY_TAG, "Enter Inventory Tag:")
            /\ UNCHANGED user_data
       ELSE IF m.location # None
       THEN IF ~HasData(u) THEN Raises(u)
            ELSE /\ SetField(u, Location, location_text(m.location))
                 /\ AddReturns(u, PARKING_ANGEL, "Is Straight Parking Angel? ")
       ELSE /\ AddReturns(u, LOCATION, "Please share location or skip:")
            /\ UNCHANGED user_data

add_location(u, m) ==
    /\ addState[u] = LOCATION
    /\ IF m.text = Skip
       THEN IF ~HasData(u) THEN Raises(u)
            ELSE /\ SetIfAbsent(u, Location)
                 /\ AddReturns(u, PARKING_ANGEL, "Is Straight Parking Angel? ")
       ELSE IF m.text = Back
       THEN /\ AddReturns(u, INVENTORY_TAG, "Enter Inventory Tag:")
            /\ UNCHANGED user_data
       ELSE IF m.location # None
       THEN IF ~HasData(u) THEN Raises(u)
            ELSE /\ SetField(u, Location, location_text(m.location))
                 /\ AddReturns(u, PARKING_ANGEL, "Is Straight Parking Angel? ")
       ELSE /\ AddReturns(u, LOCATION, "Please share location or skip:")
            /\ UNCHANGED user_data

add_parking_angel(u, t) ==
    /\ addState[u] = PARKING_ANGEL
    /\ IF t = Skip
       THEN IF ~HasData(u) THEN Raises(u)
            ELSE /\ SetIfAbsent(u, ParkingAngel)
                 /\ AddReturns(u, TIRES_RATE, "Tires Rate (0-10):")
       ELSE IF t = Back
       THEN /\ AddReturns(u, LOCATION, "Location:")
            /\ UNCHANGED user_data
       ELSE IF lower(t) \notin {TrueText, FalseText}
       THEN /\ AddReturns(u, PARKING_ANGEL, "Select 'True' or 'False':")
            /\ UNCHANGED user_data
       ELSE IF ~HasData(u) THEN Raises(u)
            ELSE /\ SetField(u, ParkingAngel, lower(t))
                 /\ AddReturns(u, TIRES_RATE, "Tires Rate (0-10):")

\* mutant: 'Back' drops the step's field from the in-progress record
add_range_step_BackDiscards(u, t, col, lo, hi, prev, prevPrompt, this, errPrompt, next, nextPrompt) ==
    /\ addState[u] = this
    /\ IF t = Skip
       THEN IF ~HasData(u) THEN Raises(u)
            ELSE /\ SetIfAbsent(u, col)
                 /\ AddReturns(u, next, nextPrompt)
       ELSE IF t = Back
       THEN /\ AddReturns(u, prev, prevPrompt)
            /\ IF HasData(u)
               THEN user_data' = [user_data EXCEPT
                        ![u] = DictSet(@, "research_data", DictDel(@["research_data"], col))]
               ELSE UNCHANGED user_data
       ELSE IF ~isdigit(t) \/ IntRaises(t) \/ int(t) < lo \/ int(t) > hi
       THEN /\ AddReturns(u, this, errPrompt)
            /\ UNCHANGED user_data
       ELSE /\ SetField(u, col, t)
            /\ AddReturns(u, next, nextPrompt)

\* The nine integer steps share one body in the source, repeated with the
\* step's column, range, states and prompts:
\*   not text.isdigit() or int(text) < lo or int(text) > hi
add_range_step(u, t, col, lo, hi, prev, prevPrompt, this, errPrompt, next, nextPrompt) ==
    /\ addState[u] = this
    /\ IF t = Skip
       THEN IF ~HasData(u) THEN Raises(u)
            ELSE /\ SetIfAbsent(u, col)
                 /\ AddReturns(u, next, nextPrompt)
       ELSE IF t = Back
       THEN /\ AddReturns(u, prev, prevPrompt)
            /\ UNCHANGED user_data
       ELSE IF ~isdigit(t)
       THEN /\ AddReturns(u, this, errPrompt)
            /\ UNCHANGED user_data
       ELSE IF IntRaises(t)
       THEN Raises(u)
       ELSE IF int(t) < lo \/ int(t) > hi
       THEN /\ AddReturns(u, this, errPrompt)
            /\ UNCHANGED user_data
       ELSE IF ~HasData(u) THEN Raises(u)
            ELSE /\ SetField(u, col, t)
                 /\ AddReturns(u, next, nextPrompt)

\* mutant: the text is stored before it is validated
add_tires_rate_StoresFirst(u, t) ==
    /\ addState[u] = TIRES_RATE
    /\ IF t = Skip
       THEN /\ SetIfAbsent(u, TiresRate)
            /\ AddReturns(u, SEAT_HEIGHT, "Seat Hight (1-10):")
       ELSE IF t = Back
       THEN /\ AddReturns(u, PARKING_ANGEL, "Is Straight Parking Angel?")
            /\ UNCHANGED user_data
       ELSE /\ SetField(u, TiresRate, t)
            /\ IF ~isdigit(t) \/ IntRaises(t) \/ int(t) < 0 \/ int(t) > 10
               THEN AddReturns(u, TIRES_RATE, "Select a valid rate (0-10):")
               ELSE AddReturns(u, SEAT_HEIGHT, "Seat Hight (1-10):")

add_tires_rate(u, t) ==
    add_range_step(u, t, TiresRate, 0, 10,
                   PARKING_ANGEL, "Is Straight Parking Angel?",
                   TIRES_RATE, "Select a valid rate (0-10):",
                   SEAT_HEIGHT, "Seat Hight (1-10):")

add_seat_height(u, t) ==
    add_range_step(u, t, SeatHight, 1, 10,
                   TIRES_RATE, "Tires Rate (0-10):",
                   SEAT_HEIGHT, "Select a valid height (1-10):",
                   APPEARENCE_RATE, "Appearence Rate (0-10):")

add_appearence_rate(u, t) ==
    add_range_step(u, t, AppearenceRate, 0, 10,
                   SEAT_HEIGHT, "Seat Hight (1-10):",
                   APPEARENCE_RATE, "Select a valid rate (0-10):",
                   BATTERY_LEVEL, "Battery Level (0-4):")

add_battery_level(u, t) ==
    add_range_step(u, t, BatteryLevel, 0, 4,
                   APPEARENCE_RATE, "Appearence Rate (0-10):",
                   BATTERY_LEVEL, "Select a valid battery level (0-4):",
                   LEFT_BRAKE_RATE, "Left Brake Rate (0-10):")

add_left_brake_rate(u, t) ==
    add_range_step(u, t, LeftBrakeRate, 0, 10,
                   BATTERY_LEVEL, "Battery Level (0-4):",
                   LEFT_BRAKE_RATE, "Select a valid rate (0-10):",
                   RIGHT_BRAKE_RATE, "Right Brake Rate (0-10):")

add_right_brake_rate(u, t) ==
    add_range_step(u, t, RightBrakeRate, 0, 10,
                   LEFT_BRAKE_RATE, "Left Brake Rate (0-10):",
                   RIGHT_BRAKE_RATE, "Select a valid rate (0-10):",
                   PEDALING_RATE, "Pedaling Rate (0-10):")

add_pedaling_rate(u, t) ==
    add_range_step(u, t, PedalingRate, 0, 10,
                   RIGHT_BRAKE_RATE, "Right Brake Rate (0-10):",
                   PEDALING_RATE, "Select a valid rate (0-10):",
                   SPEED_RATE, "Speed Rate (0-10):")

add_speed_rate(u, t) ==
    add_range_step(u, t, SpeedRate, 0, 10,
                   PEDALING_RATE, "Pedaling Rate (0-10):",
                   SPEED_RATE, "Select a valid rate (0-10):",
                   NOTE, "Any notes?")

\* the record add_note commits: research_data with the note and the date
NoteRecord(u, t, now) ==
    LET withNote == IF t = Skip
                    THEN (IF Note \in DOMAIN research_data(u)
                          THEN research_data(u)
                          ELSE DictSet(research_data(u), Note, NA))
                    ELSE DictSet(research_data(u), Note, t)
    IN  DictSet(withNote, Date, now)

add_note(u, t, now) ==
    /\ addState[u] = NOTE
    /\ IF t = Back
       THEN /\ AddReturns(u, SPEED_RATE, "Speed Rate (0-10):")
            /\ UNCHANGED user_data
       ELSE IF ~HasData(u) THEN Raises(u)
       ELSE LET data == Append(read_csv, NoteRecord(u, t, now))
            IN  IF WriteRaises(data)
                THEN \* the summary went out, research_data holds note and date
                     /\ user_data' = [user_data EXCEPT
                            ![u] = DictSet(@, "research_data", NoteRecord(u, t, now))]
                     /\ Says(u, <<"Summary:", "An error occurred. Please try again.">>)
                     /\ UNCHANGED <<store, addState, updState>>
                ELSE /\ store' = write_csv(data)
                     /\ user_data' = [user_data EXCEPT ![u] = EmptyDict]
                     /\ addState' = [addState EXCEPT ![u] = END]
                     /\ Says(u, <<"Summary:", "Saved">>)
                     /\ UNCHANGED updState


(***************************************************************************)
(* delete, and the update conversation.                                    *)
(***************************************************************************)
\* command arguments (context.args): the words after the command
ArgLists == { <<>>, <<Back>>, <<Skip>>, <<B1>> }

\* mutant: break after the first match, later rows with the Serial ID stay
RECURSIVE Without_FirstOnly(_, _)
Without_FirstOnly(data, serial_id) ==
    IF data = <<>> THEN <<>>
    ELSE IF Head(data)[SerialID] # serial_id
         THEN <<Head(data)>> \o Without_FirstOnly(Tail(data), serial_id)
         ELSE Tail(data)

\* [row for row in data if row['Serial ID'] != serial_id]
RECURSIVE Without(_, _)
Without(data, serial_id) ==
    IF data = <<>> THEN <<>>
    ELSE IF Head(data)[SerialID] # serial_id
         THEN <<Head(data)>> \o Without(Tail(data), serial_id)
         ELSE Without(Tail(data), serial_id)

delete_command(u, args) ==
    IF Len(args) = 0
    THEN /\ Says(u, <<"Usage: /delete <Serial ID>">>)
         /\ UNCHANGED <<store, addState, updState, user_data>>
    ELSE LET serial_id == join(args)
             data == Without(read_csv, serial_id)
         IN  IF Len(data) < Len(read_csv)
             THEN /\ store' = write_csv(data)
                  /\ Says(u, <<"Deleted">>)
                  /\ UNCHANGED <<addState, updState, user_data>>
             ELSE /\ Says(u, <<"Not found">>)
                  /\ UNCHANGED <<store, addState, updState, user_data>>

\* index of the first row with that Serial ID, 0 if there is none
FirstMatch(data, serial_id) ==
    IF \E i \in 1..Len(data) : data[i][SerialID] = serial_id
    THEN CHOOSE i \in 1..Len(data) :
            /\ data[i][SerialID] = serial_id
            /\ \A j \in 1..(i - 1) : data[j][SerialID] # serial_id
    ELSE 0

\* the update handler returns state s after sending msg
UpdReturns(u, s, msg) ==
    /\ updState' = [updState EXCEPT ![u] = s]
    /\ Says(u, <<msg>>)
    /\ UNCHANGED <<store, addState>>

\* mutant: the target is remembered and the conversation entered without
\* looking the record up
update_start_EntersUnchecked(u, args) ==
    /\ updState[u] = END
    /\ IF Len(args) = 0
       THEN /\ UpdReturns(u, END, "Usage: /update <Serial ID>")
            /\ UNCHANGED user_data
       ELSE /\ user_data' = [user_data EXCEPT
                   ![u] = DictSet(@, "update_serial_id", join(args))]
            /\ UpdReturns(u, UPDATE_FIELD, "Update field for:")

update_start(u, args) ==
    \* entry point of update_handler: matched only while no update
    \* conversation of u is in progress
    /\ updState[u] = END
    /\ IF Len(args) = 0
       THEN /\ UpdReturns(u, END, "Usage: /update <Serial ID>")
            /\ UNCHANGED user_data
       ELSE LET serial_id == join(args)
                data == read_csv
                i == FirstMatch(data, serial_id)
            IN  IF i = 0
                THEN /\ UpdReturns(u, END, "Not found")
                     /\ UNCHANGED user_data
                ELSE /\ user_data' = [user_data EXCEPT
                            ![u] = DictSet(DictSet(@, "update_serial_id", serial_id),
                                           "update_record", data[i])]
                     /\ UpdReturns(u, UPDATE_FIELD, "Update field for:")

FieldPrompt(field) ==
    IF field \in {PedalingRate, LeftBrakeRate, RightBrakeRate,
                  TiresRate, AppearenceRate, SpeedRate}
    THEN "New (0-10):"
    ELSE IF field = BatteryLevel THEN "New (0-4):"
    ELSE IF field = ParkingAngel THEN "New:"
    ELSE IF field = SeatHight THEN "New (1-10):"
    ELSE IF field = Location THEN "New Location:"
    ELSE "New:"

\* mutant: only Date is refused, Serial ID can be chosen
update_field_AllowsSerialId(u, field) ==
    /\ updState[u] = UPDATE_FIELD
    /\ IF field = Cancel
       THEN /\ user_data' = [user_data EXCEPT ![u] = EmptyDict]
            /\ UpdReturns(u, END, "Cancelled")
       ELSE IF field \notin Columns \/ field \in {Date}
       THEN /\ UpdReturns(u, UPDATE_FIELD, "Invalid field")
            /\ UNCHANGED user_data
       ELSE /\ user_data' = [user_data EXCEPT ![u] = DictSet(@, "update_field", field)]
            /\ UpdReturns(u, UPDATE_VALUE, FieldPrompt(field))

update_field(u, field) ==
    /\ updState[u] = UPDATE_FIELD
    /\ IF field = Cancel
       THEN /\ user_data' = [user_data EXCEPT ![u] = EmptyDict]
            /\ UpdReturns(u, END, "Cancelled")
       ELSE IF field \notin Columns \/ field \in {SerialID, Date}
       THEN /\ UpdReturns(u, UPDATE_FIELD, "Invalid field")
            /\ UNCHANGED user_data
       ELSE /\ user_data' = [user_data EXCEPT ![u] = DictSet(@, "update_field", field)]
            /\ UpdReturns(u, UPDATE_VALUE, FieldPrompt(field))

\* mutant: the upper bound of the range is not checked
RangeChoice_NoUpperBound(value, lo, hi, msg) ==
    IF value = None THEN [do |-> "raise"]
    ELSE IF ~isdigit(value) THEN [do |-> "stay", msg |-> msg]
    ELSE IF IntRaises(value) THEN [do |-> "raise"]
    ELSE IF int(value) < lo THEN [do |-> "stay", msg |-> msg]
    ELSE [do |-> "write", value |-> value]

\* What lines 610-659 of update_value decide for an inbound message:
\*   [do |-> "raise"]                an exception leaves the handler
\*   [do |-> "back"]                 return UPDATE_FIELD
\*   [do |-> "stay", msg |-> ..]     re-prompt, return UPDATE_VALUE
\*   [do |-> "write", value |-> ..]  go on to update the record
RangeChoice(value, lo, hi, msg) ==
    IF value = None THEN [do |-> "raise"]
    ELSE IF ~isdigit(value) THEN [do |-> "stay", msg |-> msg]
    ELSE IF IntRaises(value) THEN [do |-> "raise"]
    ELSE IF int(value) < lo \/ int(value) > hi THEN [do |-> "stay", msg |-> msg]
    ELSE [do |-> "write", value |-> value]

\* mutant: 'Skip' is set-if-absent, as in the add conversation
SkipValue_KeepsValue(ud) ==
    IF ud["update_record"][ud["update_field"]] \in {NA, <<>>}
    THEN NA
    ELSE ud["update_record"][ud["update_field"]]

\* if update.message.text == 'Skip': value = 'N/A'
SkipValue(ud) == NA

ValueChoice(ud, m) ==
    IF m.text = Skip THEN [do |-> "write", value |-> SkipValue(ud)]
    ELSE IF m.text = Back
    THEN IF "update_serial_id" \in DOMAIN ud THEN [do |-> "back"] ELSE [do |-> "raise"]
    ELSE IF "update_field" \notin DOMAIN ud THEN [do |-> "raise"]
    ELSE LET field == ud["update_field"]
             value == m.text
         IN  IF field = Location
             THEN IF m.location # None
                  THEN [do |-> "write", value |-> location_text(m.location)]
                  ELSE [do |-> "stay", msg |-> "Share location or skip:"]
             ELSE IF field \in {Note, InventoryTag}
             THEN [do |-> "write", value |-> value]
             ELSE IF field \in {PedalingRate, LeftBrakeRate, RightBrakeRate,
                                TiresRate, AppearenceRate, SpeedRate}
             THEN RangeChoice(value, 0, 10, "Select a valid rate (0-10):")
             ELSE IF field = BatteryLevel
             THEN RangeChoice(value, 0, 4, "Select a valid battery level (0-4):")
             ELSE IF field = ParkingAngel
             THEN IF value = None THEN [do |-> "raise"]
                  ELSE IF lower(value) \notin {TrueText, FalseText}
                  THEN [do |-> "stay", msg |-> "Select 'True' or 'False':"]
                  ELSE [do |-> "write", value |-> lower(value)]
             ELSE IF field = SeatHight
             THEN RangeChoice(value, 1, 10, "Select a valid height (1-10):")
             ELSE [do |-> "write", value |-> value]

\* mutant: no break, the last row with the Serial ID is the one left updated
Updated_LastMatch(data, serial_id, field, value) ==
    LET matches == {i \in 1..Len(data) : data[i][SerialID] = serial_id}
    IN  IF matches = {} THEN data
        ELSE LET i == CHOOSE x \in matches : \A y \in matches : y <= x
             IN  [data EXCEPT ![i] = DictSet(@, field, value)]

\* for row in data: if row['Serial ID'] == serial_id: row[field] = value; break
Updated(data, serial_id, field, value) ==
    LET i == FirstMatch(data, serial_id)
    IN  IF i = 0 THEN data
        ELSE [data EXCEPT ![i] = DictSet(@, field, value)]

\* mutant: the row is written back from the copy taken at /update
update_value_FromSnapshot(u, m) ==
    /\ updState[u] = UPDATE_VALUE
    /\ LET ud == user_data[u]
           c == ValueChoice(ud, m)
       IN  IF c.do = "raise" THEN Raises(u)
           ELSE IF c.do = "back"
           THEN /\ UpdReturns(u, UPDATE_FIELD, "Update field for:")
                /\ UNCHANGED user_data
           ELSE IF c.do = "stay"
           THEN /\ UpdReturns(u, UPDATE_VALUE, c.msg)
                /\ UNCHANGED user_data
           ELSE IF ~({"update_field", "update_serial_id", "update_record"} \subseteq DOMAIN ud)
           THEN Raises(u)
           ELSE LET i == FirstMatch(read_csv, ud["update_serial_id"])
                    data == IF i = 0 THEN read_csv
                            ELSE [read_csv EXCEPT
                                    ![i] = DictSet(ud["update_record"],
                                                   ud["update_field"], c.value)]
                IN  IF WriteRaises(data) THEN Raises(u)
                    ELSE /\ store' = write_csv(data)
                         /\ user_data' = [user_data EXCEPT ![u] = EmptyDict]
                         /\ updState' = [updState EXCEPT ![u] = END]
                         /\ Says(u, <<"Updated">>)
                         /\ UNCHANGED addState

update_value(u, m) ==
    /\ updState[u] = UPDATE_VALUE
    /\ LET ud == user_data[u]
           c == ValueChoice(ud, m)
       IN  IF c.do = "raise" THEN Raises(u)
           ELSE IF c.do = "back"
           THEN /\ UpdReturns(u, UPDATE_FIELD, "Update field for:")
                /\ UNCHANGED user_data
           ELSE IF c.do = "stay"
           THEN /\ UpdReturns(u, UPDATE_VALUE, c.msg)
                /\ UNCHANGED user_data
           ELSE IF ~({"update_field", "update_serial_id"} \subseteq DOMAIN ud)
           THEN Raises(u)
           ELSE LET data == Updated(read_csv, ud["update_serial_id"],
                                    ud["update_field"], c.value)
                IN  IF WriteRaises(data) THEN Raises(u)
                    ELSE /\ store' = write_csv(data)
                         /\ user_data' = [user_data EXCEPT ![u] = EmptyDict]
                         /\ updState' = [updState EXCEPT ![u] = END]
                         /\ Says(u, <<"Updated">>)
                         /\ UNCHANGED addState

(***************************************************************************)
(* The other commands.                                                     *)
(***************************************************************************)
start(u) ==
    /\ Says(u, <<"Bike Research Bot">>)
    /\ UNCHANGED <<store, addState, updState, user_data>>

see_command(u) ==
    /\ IF read_csv = <<>>
       THEN Says(u, <<"No records">>)
       ELSE \* the file as a document, captioned with the number of records
            Says(u, <<"research_data.csv">>)
    /\ UNCHANGED <<store, addState, updState, user_data>>

\* mutant: one dictionary for all users instead of context.user_data
cancel_ClearsEveryone(u) ==
    /\ addState[u] # END \/ updState[u] # END
    /\ user_data' = [v \in Users |-> EmptyDict]
    /\ Says(u, <<"Cancelled">>)
    /\ IF addState[u] # END
       THEN /\ addState' = [addState EXCEPT ![u] = END]
            /\ UNCHANGED updState
       ELSE /\ updState' = [updState EXCEPT ![u] = END]
            /\ UNCHANGED addState
    /\ UNCHANGED store

\* mutant: the conversation ends, user_data is not cleared
cancel_KeepsData(u) ==
    /\ addState[u] # END \/ updState[u] # END
    /\ Says(u, <<"Cancelled">>)
    /\ IF addState[u] # END
       THEN /\ addState' = [addState EXCEPT ![u] = END]
            /\ UNCHANGED updState
       ELSE /\ updState' = [updState EXCEPT ![u] = END]
            /\ UNCHANGED addState
    /\ UNCHANGED <<store, user_data>>

\* The fallback of both conversation handlers.  add_handler is registered
\* first: while an add conversation is in progress it takes /cancel and ends,
\* and update_handler never sees that update.
cancel(u) ==
    /\ addState[u] # END \/ updState[u] # END
    /\ user_data' = [user_data EXCEPT ![u] = EmptyDict]
    /\ Says(u, <<"Cancelled">>)
    /\ IF addState[u] # END
       THEN /\ addState' = [addState EXCEPT ![u] = END]
            /\ UNCHANGED updState
       ELSE /\ updState' = [updState EXCEPT ![u] = END]
            /\ UNCHANGED addState
    /\ UNCHANGED store


(***************************************************************************)
(* Dispatch (main): the handlers are tried in the order they were added,   *)
(* the first that matches handles the update.  A conversation handler in   *)
(* a state matches what that state's handlers or its fallback match; add   *)
(* is registered before update, so text reaches the update conversation    *)
(* only while no add conversation is in progress, and a location reaches   *)
(* it unless the add conversation is at LOCATION.                          *)
(***************************************************************************)
TextToUpdate(u) == addState[u] = END
LocationToUpdate(u) == addState[u] # LOCATION

Filled(d) == Cardinality({c \in (DOMAIN d) \ {SerialID, Date} : d[c] # NA})

RECURSIVE FilledRows(_)
FilledRows(data) ==
    IF data = <<>> THEN 0 ELSE Filled(Head(data)) + FilledRows(Tail(data))

RECURSIVE FilledInProgress(_)
FilledInProgress(us) ==
    IF us = {} THEN 0
    ELSE LET u == CHOOSE x \in us : TRUE
         IN  (IF HasData(u) THEN Filled(research_data(u)) ELSE 0)
                + FilledInProgress(us \ {u})

\* the bounds on the states explored: the rows of the store, and the optional
\* fields, stored or in progress, that hold a value other than "N/A"
Bounded ==
    /\ Len(store) <= MaxStore
    /\ FilledRows(store) + FilledInProgress(Users) <= MaxFilled

\* the participant is in no conversation
Idle(u) == addState[u] = END /\ updState[u] = END

Participants == {"u1"}

FieldTexts == Columns \cup {Cancel, <<"I", "D">>}
ValueUpdates == {TextMsg(t) : t \in {Skip, Back, <<"7">>, <<"T", "r", "u", "e">>}}
                   \cup {LocationMsg(l) : l \in Locations}

Init ==
    /\ store = <<>>
    /\ addState = [u \in Users |-> END]
    /\ updState = [u \in Users |-> END]
    /\ user_data = [u \in Users |-> EmptyDict]
    /\ inbound = [from |-> "", kind |-> "", body |-> <<>>]
    /\ reply = <<>>

Command(u, name, args) == inbound' = [from |-> u, kind |-> name, body |-> args]
Text(u, t) == inbound' = [from |-> u, kind |-> "text", body |-> t]
Message(u, m) ==
    inbound' = IF m.location = None
               THEN [from |-> u, kind |-> "text", body |-> m.text]
               ELSE [from |-> u, kind |-> "location", body |-> m.location]

\* The environment of Spec: a participant is in one conversation at a time
\* (/add is not sent during an update conversation, nor /update during an add
\* conversation), sends /delete outside the add conversation, and /start and
\* /see outside any conversation.
Start ==
    \E u \in Participants :
        Idle(u) /\ Command(u, "/start", <<>>) /\ start(u) /\ Bounded'
See ==
    \E u \in Participants :
        Idle(u) /\ Command(u, "/see", <<>>) /\ see_command(u) /\ Bounded'
AddStart ==
    \E u \in Participants :
        updState[u] = END /\ Command(u, "/add", <<>>) /\ add_start(u) /\ Bounded'
AddSerialId ==
    \E u \in Participants, t \in SerialTexts :
        Text(u, t) /\ add_serial_id(u, t) /\ Bounded'
AddInventoryTag ==
    \E u \in Participants, t \in FreeTexts :
        Text(u, t) /\ add_inventory_tag(u, t) /\ Bounded'
AddLocation ==
    \E u \in Participants, m \in LocationUpdates :
        Message(u, m) /\ add_location(u, m) /\ Bounded'
AddParkingAngel ==
    \E u \in Participants, t \in BooleanTexts :
        Text(u, t) /\ add_parking_angel(u, t) /\ Bounded'
AddTiresRate ==
    \E u \in Participants, t \in RateTexts :
        Text(u, t) /\ add_tires_rate(u, t) /\ Bounded'
AddSeatHeight ==
    \E u \in Participants, t \in SeatTexts :
        Text(u, t) /\ add_seat_height(u, t) /\ Bounded'
AddAppearenceRate ==
    \E u \in Participants, t \in RateTexts :
        Text(u, t) /\ add_appearence_rate(u, t) /\ Bounded'
AddBatteryLevel ==
    \E u \in Participants, t \in BatteryTexts :
        Text(u, t) /\ add_battery_level(u, t) /\ Bounded'
AddLeftBrakeRate ==
    \E u \in Participants, t \in RateTexts :
        Text(u, t) /\ add_left_brake_rate(u, t) /\ Bounded'
AddRightBrakeRate ==
    \E u \in Participants, t \in RateTexts :
        Text(u, t) /\ add_right_brake_rate(u, t) /\ Bounded'
AddPedalingRate ==
    \E u \in Participants, t \in RateTexts :
        Text(u, t) /\ add_pedaling_rate(u, t) /\ Bounded'
AddSpeedRate ==
    \E u \in Participants, t \in RateTexts :
        Text(u, t) /\ add_speed_rate(u, t) /\ Bounded'
AddNote ==
    \E u \in Participants, t \in FreeTexts, now \in Clock :
        Text(u, t) /\ add_note(u, t, now) /\ Bounded'
Delete ==
    \E u \in Participants, args \in ArgLists :
        /\ addState[u] = END
        /\ Command(u, "/delete", args)
        /\ delete_command(u, args)
        /\ Bounded'
UpdateStart ==
    \E u \in Participants, args \in ArgLists :
        /\ addState[u] = END
        /\ Command(u, "/update", args)
        /\ update_start(u, args)
        /\ Bounded'
UpdateField ==
    \E u \in Participants, t \in FieldTexts :
        TextToUpdate(u) /\ Text(u, t) /\ update_field(u, t) /\ Bounded'
UpdateValue ==
    \E u \in Participants, m \in ValueUpdates :
        /\ IF m.location = None THEN TextToUpdate(u) ELSE LocationToUpdate(u)
        /\ Message(u, m)
        /\ update_value(u, m)
        /\ Bounded'
CancelCommand ==
    \E u \in Participants :
        Command(u, "/cancel", <<>>) /\ cancel(u) /\ Bounded'

Next ==
    \/ Start \/ See \/ AddStart \/ AddSerialId \/ AddInventoryTag \/ AddLocation
    \/ AddParkingAngel \/ AddTiresRate \/ AddSeatHeight \/ AddAppearenceRate
    \/ AddBatteryLevel \/ AddLeftBrakeRate \/ AddRightBrakeRate \/ AddPedalingRate
    \/ AddSpeedRate \/ AddNote \/ Delete \/ UpdateStart \/ UpdateField
    \/ UpdateValue \/ CancelCommand

Spec == Init /\ [][Next]_vars


(***************************************************************************)
(* The dispatch as a whole: what Application.process_update does with an   *)
(* inbound update of participant u, whatever conversations u is in.        *)
(***************************************************************************)
\* no handler matches: the update is dropped, nothing is sent
Ignored(u) ==
    /\ reply' = <<>>
    /\ UNCHANGED <<store, addState, updState, user_data>>

\* the handler of the state the add conversation of u is in
AddStep(u, m, now) ==
    IF addState[u] = SERIAL_ID THEN add_serial_id(u, m.text)
    ELSE IF addState[u] = INVENTORY_TAG THEN add_inventory_tag(u, m.text)
    ELSE IF addState[u] = LOCATION THEN add_location(u, m)
    ELSE IF addState[u] = PARKING_ANGEL THEN add_parking_angel(u, m.text)
    ELSE IF addState[u] = TIRES_RATE THEN add_tires_rate(u, m.text)
    ELSE IF addState[u] = SEAT_HEIGHT THEN add_seat_height(u, m.text)
    ELSE IF addState[u] = APPEARENCE_RATE THEN add_appearence_rate(u, m.text)
    ELSE IF addState[u] = BATTERY_LEVEL THEN add_battery_level(u, m.text)
    ELSE IF addState[u] = LEFT_BRAKE_RATE THEN add_left_brake_rate(u, m.text)
    ELSE IF addState[u] = RIGHT_BRAKE_RATE THEN add_right_brake_rate(u, m.text)
    ELSE IF addState[u] = PEDALING_RATE THEN add_pedaling_rate(u, m.text)
    ELSE IF addState[u] = SPEED_RATE THEN add_speed_rate(u, m.text)
    ELSE add_note(u, m.text, now)

\* start, add_handler, delete, update_handler and see are tried in this
\* order.  A conversation handler with no conversation of u in progress
\* matches its entry point only; with one in progress it matches the
\* handlers of the current state and the /cancel fallback only.
Dispatch(u, kind, body, now) ==
    IF kind = "/start" THEN start(u)
    ELSE IF kind = "/add"
    THEN IF addState[u] = END THEN add_start(u) ELSE Ignored(u)
    ELSE IF kind = "/cancel"
    THEN IF Idle(u) THEN Ignored(u) ELSE cancel(u)
    ELSE IF kind = "/delete" THEN delete_command(u, body)
    ELSE IF kind = "/update"
    THEN IF updState[u] = END THEN update_start(u, body) ELSE Ignored(u)
    ELSE IF kind = "/see" THEN see_command(u)
    ELSE IF kind = "text"
    THEN IF addState[u] # END THEN AddStep(u, TextMsg(body), now)
         ELSE IF updState[u] = UPDATE_FIELD THEN update_field(u, body)
         ELSE IF updState[u] = UPDATE_VALUE THEN update_value(u, TextMsg(body))
         ELSE Ignored(u)
    ELSE \* a location
         IF addState[u] = LOCATION THEN AddStep(u, LocationMsg(body), now)
         ELSE IF updState[u] = UPDATE_VALUE THEN update_value(u, LocationMsg(body))
         ELSE Ignored(u)

Receive(u, kind, body) == inbound' = [from |-> u, kind |-> kind, body |-> body]

(***************************************************************************)
(* SpecAnyOrder: one participant who sends commands and messages in any    *)
(* order, so that /add, /update and /cancel arrive while a conversation,   *)
(* or both, are in progress, and while none is.                            *)
(***************************************************************************)
AnyTexts == {Skip, Cancel, Note}
AnyArgs == { <<>>, <<Skip>> }

AnyAdd ==
    \E u \in Participants, now \in Clock :
        /\ Receive(u, "/add", <<>>)
        /\ Dispatch(u, "/add", <<>>, now)
        /\ Bounded'
AnyUpdate ==
    \E u \in Participants, args \in AnyArgs, now \in Clock :
        /\ Receive(u, "/update", args)
        /\ Dispatch(u, "/update", args, now)
        /\ Bounded'
AnyDelete ==
    \E u \in Participants, args \in AnyArgs, now \in Clock :
        /\ Receive(u, "/delete", args)
        /\ Dispatch(u, "/delete", args, now)
        /\ Bounded'
AnyCancel ==
    \E u \in Participants, now \in Clock :
        /\ Receive(u, "/cancel", <<>>)
        /\ Dispatch(u, "/cancel", <<>>, now)
        /\ Bounded'
AnyText ==
    \E u \in Participants, t \in AnyTexts, now \in Clock :
        /\ Receive(u, "text", t)
        /\ Dispatch(u, "text", t, now)
        /\ Bounded'
AnyLocation ==
    \E u \in Participants, l \in Locations, now \in Clock :
        /\ Receive(u, "location", l)
        /\ Dispatch(u, "location", l, now)
        /\ Bounded'

NextAnyOrder ==
    \/ AnyAdd \/ AnyUpdate \/ AnyDelete \/ AnyCancel \/ AnyText \/ AnyLocation

SpecAnyOrder == Init /\ [][NextAnyOrder]_vars

(***************************************************************************)
(* SpecTwo: two participants whose updates arrive interleaved in any       *)
(* order, each handled to completion before the next (the Application is   *)
(* built without concurrent_updates and no handler is non-blocking).  Each *)
(* participant is in one conversation at a time.                           *)
(***************************************************************************)
TwoTexts == {Skip, Note}
TwoArgs == { <<Skip>>, <<Note>> }

TwoAdd ==
    \E u \in Users, now \in Clock :
        /\ Idle(u)
        /\ Receive(u, "/add", <<>>)
        /\ Dispatch(u, "/add", <<>>, now)
        /\ Bounded'
TwoUpdate ==
    \E u \in Users, args \in TwoArgs, now \in Clock :
        /\ Idle(u)
        /\ Receive(u, "/update", args)
        /\ Dispatch(u, "/update", args, now)
        /\ Bounded'
TwoDelete ==
    \E u \in Users, args \in TwoArgs, now \in Clock :
        /\ Receive(u, "/delete", args)
        /\ Dispatch(u, "/delete", args, now)
        /\ Bounded'
TwoCancel ==
    \E u \in Users, now \in Clock :
        /\ ~Idle(u)
        /\ Receive(u, "/cancel", <<>>)
        /\ Dispatch(u, "/cancel", <<>>, now)
        /\ Bounded'
TwoText ==
    \E u \in Users, t \in TwoTexts, now \in Clock :
        /\ ~Idle(u)
        /\ Receive(u, "text", t)
        /\ Dispatch(u, "text", t, now)
        /\ Bounded'

NextTwo == TwoAdd \/ TwoUpdate \/ TwoDelete \/ TwoCancel \/ TwoText

SpecTwo == Init /\ [][NextTwo]_vars

(***************************************************************************)
(* SpecValidators: one participant brings the add conversation, with       *)
(* 'Skip', to a validated step, or the update conversation of the one      *)
(* stored record to the value of a validated field, and sends there the    *)
(* texts the validators are to tell apart.                                 *)
(***************************************************************************)
\* the decimal literals of 0..11, "-1", a signed and a decimal form, a word,
\* SUPERSCRIPT TWO, the empty text (Telegram delivers none; the validators
\* are asked about it all the same), and spellings of the boolean tokens
ValidatorTexts ==
    {str(n) : n \in 0..11}
       \cup { <<"-", "1">>, <<"+", "5">>, <<"5", ".", "0">>, <<"x">>, <<"U+00B2">>, <<>> }
       \cup { <<"T", "r", "u", "e">>, <<"T", "R", "U", "E">>, <<"f", "a", "l", "s", "e">>,
               <<"F", "a", "L", "s", "E">>, <<"y", "e", "s">>, <<"t", "r", "u", "e", "e">> }
ValidatedColumns ==
    {ParkingAngel, TiresRate, SeatHight, AppearenceRate, BatteryLevel,
     LeftBrakeRate, RightBrakeRate, PedalingRate, SpeedRate}

VAdd ==
    \E u \in Participants, now \in Clock :
        /\ Idle(u)
        /\ store = <<>>
        /\ Receive(u, "/add", <<>>)
        /\ Dispatch(u, "/add", <<>>, now)
        /\ Bounded'
VSkip ==
    \E u \in Participants, now \in Clock :
        /\ addState[u] # END
        /\ Receive(u, "text", Skip)
        /\ Dispatch(u, "text", Skip, now)
        /\ Bounded'
VUpdate ==
    \E u \in Participants, now \in Clock :
        /\ Idle(u)
        /\ Receive(u, "/update", <<Skip>>)
        /\ Dispatch(u, "/update", <<Skip>>, now)
        /\ Bounded'
VField ==
    \E u \in Participants, f \in ValidatedColumns, now \in Clock :
        /\ addState[u] = END
        /\ updState[u] = UPDATE_FIELD
        /\ Receive(u, "text", f)
        /\ Dispatch(u, "text", f, now)
        /\ Bounded'
ValidateAdd ==
    \E u \in Participants, t \in ValidatorTexts, now \in Clock :
        /\ addState[u] \in PARKING_ANGEL..SPEED_RATE
        /\ Receive(u, "text", t)
        /\ Dispatch(u, "text", t, now)
        /\ Bounded'
ValidateUpdate ==
    \E u \in Participants, t \in ValidatorTexts, now \in Clock :
        /\ addState[u] = END
        /\ updState[u] = UPDATE_VALUE
        /\ Receive(u, "text", t)
        /\ Dispatch(u, "text", t, now)
        /\ Bounded'

NextValidators ==
    VAdd \/ VSkip \/ VUpdate \/ VField \/ ValidateAdd \/ ValidateUpdate

SpecValidators == Init /\ [][NextValidators]_vars

(***************************************************************************)
(* SpecIds: one participant stores records under Serial IDs of one and of  *)
(* several words and names them in /delete and /update.  A command arrives *)
(* as one line of text; CommandHandler hands the handler context.args, the *)
(* words of the line after the command (message.text.split()[1:]).         *)
(***************************************************************************)
IdTexts == { <<"a">>, <<"a", " ", "b">>, <<"a", " ", " ", "b">> }

\* the command name followed by the text line: inbound keeps the line next
\* to the arguments made of it
ReceiveLine(u, name, line) ==
    inbound' = [from |-> u, kind |-> name, body |-> split(line), line |-> line]

IdAdd ==
    \E u \in Participants, now \in Clock :
        /\ Idle(u)
        /\ Receive(u, "/add", <<>>)
        /\ Dispatch(u, "/add", <<>>, now)
        /\ Bounded'
IdText ==
    \E u \in Participants, t \in IdTexts \cup {Skip}, now \in Clock :
        /\ ~Idle(u)
        /\ Receive(u, "text", t)
        /\ Dispatch(u, "text", t, now)
        /\ Bounded'
IdDelete ==
    \E u \in Participants, line \in IdTexts, now \in Clock :
        /\ ReceiveLine(u, "/delete", line)
        /\ Dispatch(u, "/delete", split(line), now)
        /\ Bounded'
IdUpdate ==
    \E u \in Participants, line \in IdTexts, now \in Clock :
        /\ Idle(u)
        /\ ReceiveLine(u, "/update", line)
        /\ Dispatch(u, "/update", split(line), now)
        /\ Bounded'
IdCancel ==
    \E u \in Participants, now \in Clock :
        /\ ~Idle(u)
        /\ Receive(u, "/cancel", <<>>)
        /\ Dispatch(u, "/cancel", <<>>, now)
        /\ Bounded'

NextIds == IdAdd \/ IdText \/ IdDelete \/ IdUpdate \/ IdCancel

SpecIds == Init /\ [][NextIds]_vars

(***************************************************************************)
(* Vocabulary of the properties.                                           *)
(***************************************************************************)
\* the column each step of the add conversation asks for, by state
AddSteps ==
    << SerialID, InventoryTag, Location, ParkingAngel, TiresRate, SeatHight,
       AppearenceRate, BatteryLevel, LeftBrakeRate, RightBrakeRate,
       PedalingRate, SpeedRate, Note >>
StepColumn(k) == AddSteps[k + 1]

\* this step handles the text t sent by u
TextFrom(u, t) ==
    inbound'.from = u /\ inbound'.kind = "text" /\ inbound'.body = t
\* this step handles some text, or some location, sent by u
SomeTextFrom(u) == inbound'.from = u /\ inbound'.kind = "text"
SomeLocationFrom(u) == inbound'.from = u /\ inbound'.kind = "location"
\* the last update handled was the text t sent by u
LastText(u, t) == inbound.from = u /\ inbound.kind = "text" /\ inbound.body = t

OptionalColumns == Columns \ {SerialID, Date}

(***************************************************************************)
(* C1: in the add conversation, at every step but SERIAL_ID, 'Skip' sets   *)
(* the step's field to "N/A" only if the in-progress record has no value   *)
(* for it; a value it holds is kept; either way the conversation moves to  *)
(* the next step (after NOTE: the record is committed with that note).     *)
(***************************************************************************)
C1_SkipSetsOnlyIfAbsent ==
    [][\A u \in Users :
          (addState[u] \in INVENTORY_TAG..NOTE /\ TextFrom(u, Skip)) =>
             LET k == addState[u]
                 F == StepColumn(k)
                 rd == research_data(u)
                 kept == IF F \in DOMAIN rd THEN rd[F] ELSE NA
             IN  IF k = NOTE
                 THEN /\ addState'[u] = END
                      /\ Len(store') = Len(store) + 1
                      /\ store'[Len(store')][F] = kept
                 ELSE /\ addState'[u] = k + 1
                      /\ user_data'[u] = DictSet(user_data[u], "research_data",
                                                 DictSet(rd, F, kept))
      ]_vars

\* 'Skip' was handled at step k, whose field held a value other than "N/A"
\* (entered earlier, the step revisited through 'Back'), and still holds it
C1_Witness ==
    \E u \in Users, k \in INVENTORY_TAG..SPEED_RATE :
        /\ LastText(u, Skip)
        /\ addState[u] = k + 1
        /\ HasData(u)
        /\ StepColumn(k) \in DOMAIN research_data(u)
        /\ research_data(u)[StepColumn(k)] # NA

(***************************************************************************)
(* C2, as claimed: in the add conversation, at every step S but SERIAL_ID, *)
(* 'Back' leaves the field of S absent from the in-progress record and     *)
(* moves to the step before S.                                             *)
(***************************************************************************)
C2_BackDiscardsField ==
    [][\A u \in Users :
          (addState[u] \in INVENTORY_TAG..NOTE /\ TextFrom(u, Back)) =>
             /\ addState'[u] = addState[u] - 1
             /\ HasData(u)'
             /\ StepColumn(addState[u]) \notin DOMAIN research_data(u)'
      ]_vars

(***************************************************************************)
(* C2, amended: in the add conversation, at every step S but SERIAL_ID,    *)
(* 'Back' moves to the step before S and leaves the in-progress record as  *)
(* it was: the field of S keeps whatever it held.                          *)
(***************************************************************************)
C2_BackKeepsRecord ==
    [][\A u \in Users :
          (addState[u] \in INVENTORY_TAG..NOTE /\ TextFrom(u, Back)) =>
             /\ addState'[u] = addState[u] - 1
             /\ user_data' = user_data
             /\ store' = store
      ]_vars

\* 'Back' was handled at step k, whose field holds a value
C2_Witness ==
    \E u \in Users, k \in INVENTORY_TAG..NOTE :
        /\ LastText(u, Back)
        /\ addState[u] = k - 1
        /\ HasData(u)
        /\ StepColumn(k) \in DOMAIN research_data(u)
        /\ research_data(u)[StepColumn(k)] # NA

(***************************************************************************)
(* C3: completing the add conversation (a note, or 'Skip', at NOTE)        *)
(* appends exactly one row: the store afterwards is the store before       *)
(* followed by the in-progress record with its note and a Date; when every *)
(* field after the Serial ID was skipped, every field of the new row but   *)
(* Serial ID and Date is "N/A".                                            *)
(***************************************************************************)
C3_CommitAppendsOneRecord ==
    [][\A u \in Users :
          (addState[u] = NOTE /\ SomeTextFrom(u) /\ inbound'.body # Back) =>
             LET rd == research_data(u)
                 t == inbound'.body
                 note == IF t # Skip THEN t
                         ELSE IF Note \in DOMAIN rd THEN rd[Note] ELSE NA
             IN  /\ \E now \in Clock :
                        store' = Append(store, DictSet(DictSet(rd, Note, note), Date, now))
                 /\ DOMAIN store'[Len(store')] = Columns
                 /\ (t = Skip /\ \A c \in (DOMAIN rd) \ {SerialID} : rd[c] = NA)
                       => \A c \in OptionalColumns : store'[Len(store')][c] = NA
      ]_vars

\* a second record was committed with everything after the Serial ID skipped
C3_Witness ==
    \E u \in Users :
        /\ LastText(u, Skip)
        /\ reply = <<"Summary:", "Saved">>
        /\ Len(store) = 2
        /\ store[2][SerialID] = Skip
        /\ \A c \in OptionalColumns : store[2][c] = NA
        /\ store[2][Date] \in Clock


(***************************************************************************)
(* What the validators of section 4.2 accept, per column.                  *)
(***************************************************************************)
RateColumns ==
    {PedalingRate, LeftBrakeRate, RightBrakeRate, TiresRate, AppearenceRate, SpeedRate}

IntLiteralIn(v, lo, hi) ==
    isdigit(v) /\ ~IntRaises(v) /\ lo <= int(v) /\ int(v) <= hi

Accepted(c, v) ==
    IF c \in RateColumns THEN IntLiteralIn(v, 0, 10)
    ELSE IF c = BatteryLevel THEN IntLiteralIn(v, 0, 4)
    ELSE IF c = SeatHight THEN IntLiteralIn(v, 1, 10)
    ELSE IF c = ParkingAngel THEN v \in {TrueText, FalseText}
    ELSE IF c = Location THEN \E l \in Locations : v = location_text(l)
    ELSE \* Inventory Tag, Note: free text, the empty text included
         v # None

StepLow(k) == IF k = SEAT_HEIGHT THEN 1 ELSE 0
StepHigh(k) == IF k = BATTERY_LEVEL THEN 4 ELSE 10

RejectedAt(k, kind, body) ==
    /\ kind = "text"
    /\ body \notin {Skip, Back}
    /\ IF k = LOCATION THEN TRUE
       ELSE IF k = PARKING_ANGEL THEN lower(body) \notin {TrueText, FalseText}
       ELSE ~IntLiteralIn(body, StepLow(k), StepHigh(k))

C5_RejectedInputChangesNothing ==
    [][\A u \in Users :
          (/\ inbound'.from = u
           /\ addState[u] \in LOCATION..SPEED_RATE
           /\ RejectedAt(addState[u], inbound'.kind, inbound'.body)) =>
             /\ addState'[u] = addState[u]
             /\ user_data' = user_data
             /\ store' = store
      ]_vars

\* "11" was sent at TIRES_RATE: the step re-prompts, the record has no rate
C5_Witness ==
    \E u \in Users :
        /\ LastText(u, <<"1", "1">>)
        /\ addState[u] = TIRES_RATE
        /\ reply = <<"Select a valid rate (0-10):">>
        /\ HasData(u)
        /\ TiresRate \notin DOMAIN research_data(u)

(***************************************************************************)
(* C6: the in-progress record is not persisted before the terminal step:   *)
(* every message the add conversation handles, but the one that completes  *)
(* NOTE, leaves the store unchanged (Back, Skip, values, rejected input,   *)
(* the Cancel token and /cancel).                                          *)
(***************************************************************************)
C6_NoWriteBeforeCommit ==
    [][\A u \in Users :
          (/\ inbound'.from = u
           /\ addState[u] # END
           /\ \/ inbound'.kind = "text"
              \/ inbound'.kind = "/cancel"
              \/ inbound'.kind = "location" /\ addState[u] = LOCATION
           /\ ~(addState[u] = NOTE /\ inbound'.kind = "text" /\ inbound'.body # Back)) =>
             store' = store
      ]_vars

\* a record is complete up to its note, and no row of the store has its id
C6_Witness ==
    \E u \in Users :
        /\ addState[u] = NOTE
        /\ HasData(u)
        /\ research_data(u)[SerialID] = Back
        /\ Len(store) >= 1
        /\ \A i \in 1..Len(store) : store[i][SerialID] # Back

(***************************************************************************)
(* C7: at SERIAL_ID 'Cancel' discards the in-progress record and ends the  *)
(* conversation; every other text, 'Back' and 'Skip' too, is stored as the *)
(* Serial ID as sent and moves to INVENTORY_TAG; 'Back' at INVENTORY_TAG    *)
(* returns to SERIAL_ID, which has no step before it.                      *)
(***************************************************************************)
C7_SerialIdStep ==
    [][\A u \in Users :
          SomeTextFrom(u) =>
             /\ addState[u] = SERIAL_ID =>
                   IF inbound'.body = Cancel
                   THEN /\ addState'[u] = END
                        /\ user_data'[u] = EmptyDict
                        /\ store' = store
                   ELSE /\ addState'[u] = INVENTORY_TAG
                        /\ user_data'[u] =
                              DictSet(user_data[u], "research_data",
                                      DictSet(research_data(u), SerialID, inbound'.body))
             /\ (addState[u] = INVENTORY_TAG /\ inbound'.body = Back) =>
                   addState'[u] = SERIAL_ID
      ]_vars

\* 'Back' was sent at SERIAL_ID and is now the Serial ID of the record
C7_Witness ==
    \E u \in Users :
        /\ LastText(u, Back)
        /\ addState[u] = INVENTORY_TAG
        /\ HasData(u)
        /\ research_data(u)[SerialID] = Back

(***************************************************************************)
(* The update conversation at UPDATE_VALUE.                                *)
(***************************************************************************)
\* the inbound update inb is a value the validator of column f accepts
ValidFor(f, inb) ==
    \/ inb.kind = "location" /\ f = Location
    \/ /\ inb.kind = "text"
       /\ inb.body \notin {Skip, Back}
       /\ f # Location
       /\ Accepted(f, IF f = ParkingAngel THEN lower(inb.body) ELSE inb.body)

\* the text stored for it
StoredFor(f, inb) ==
    IF inb.kind = "location" THEN location_text(inb.body)
    ELSE IF f = ParkingAngel THEN lower(inb.body)
    ELSE inb.body

(***************************************************************************)
(* C8: an update of record id, field f, with a valid value v sets field f  *)
(* of the first row whose Serial ID is id to v and changes nothing else:   *)
(* not the other fields of that row, not the other rows (later rows with   *)
(* the same Serial ID included), not the number or order of the rows.      *)
(***************************************************************************)
C8_UpdateChangesOneField ==
    [][\A u \in Users :
          (/\ updState[u] = UPDATE_VALUE
           /\ inbound'.from = u
           /\ ValidFor(user_data[u]["update_field"], inbound')) =>
             LET f == user_data[u]["update_field"]
                 i == FirstMatch(store, user_data[u]["update_serial_id"])
             IN  i # 0 =>
                    /\ updState'[u] = END
                    /\ Len(store') = Len(store)
                    /\ \A j \in 1..Len(store) :
                          \A c \in Columns :
                             store'[j][c] = IF j = i /\ c = f
                                            THEN StoredFor(f, inbound')
                                            ELSE store[j][c]
      ]_vars

\* two rows share a Serial ID; the update set the rate of the first only
C8_Witness ==
    \E u \in Users :
        /\ LastText(u, <<"7">>)
        /\ reply = <<"Updated">>
        /\ Len(store) = 2
        /\ store[1][SerialID] = store[2][SerialID]
        /\ store[1][TiresRate] = <<"7">>
        /\ store[2][TiresRate] = NA

C10_InvalidValueChangesNothing ==
    [][\A u \in Users :
          (/\ updState[u] = UPDATE_VALUE
           /\ inbound'.from = u
           /\ inbound'.kind \in {"text", "location"}
           /\ inbound'.kind = "text" => inbound'.body \notin {Skip, Back}
           /\ ~ValidFor(user_data[u]["update_field"], inbound')) =>
             /\ updState'[u] = UPDATE_VALUE
             /\ store' = store
      ]_vars

\* this step hands an inbound message of u to update_value
ValueFrom(u) ==
    /\ updState[u] = UPDATE_VALUE
    /\ inbound'.from = u
    /\ \/ inbound'.kind = "text" /\ TextToUpdate(u)
       \/ inbound'.kind = "location" /\ LocationToUpdate(u)

(***************************************************************************)
(* C11: when no row of the store has the Serial ID of the update target at *)
(* the moment update_value applies the value (the record was deleted after *)
(* /update), the store is left as it is and the participant is told the    *)
(* record was not found; "Updated" is not reported.                        *)
(***************************************************************************)
C11_MissingTargetReported ==
    [][\A u \in Users :
          (/\ ValueFrom(u)
           /\ "update_serial_id" \in DOMAIN user_data[u]
           /\ FirstMatch(store, user_data[u]["update_serial_id"]) = 0
           /\ updState'[u] = END) =>
             /\ store' = store
             /\ reply' = <<"Not found">>
      ]_vars

(***************************************************************************)
(* C12: /update with no argument, or with a Serial ID no row of the store  *)
(* has, replies with the usage or not-found message and enters no          *)
(* conversation: the store, user_data and the conversation states of the   *)
(* participant are unchanged.                                              *)
(***************************************************************************)
C12_UpdateOfUnknownEntersNothing ==
    [][\A u \in Users :
          (/\ inbound'.from = u
           /\ inbound'.kind = "/update"
           /\ updState[u] = END
           /\ \/ inbound'.body = <<>>
              \/ \A i \in 1..Len(store) : store[i][SerialID] # join(inbound'.body)) =>
             /\ reply' = IF inbound'.body = <<>>
                         THEN <<"Usage: /update <Serial ID>">>
                         ELSE <<"Not found">>
             /\ store' = store
             /\ user_data'[u] = user_data[u]
             /\ updState'[u] = END
             /\ addState'[u] = addState[u]
      ]_vars

\* /update B1 was answered "Not found" while the store holds records
C12_Witness ==
    \E u \in Users :
        /\ inbound.from = u
        /\ inbound.kind = "/update"
        /\ inbound.body = <<B1>>
        /\ reply = <<"Not found">>
        /\ store # <<>>
        /\ updState[u] = END
        /\ user_data[u] = EmptyDict

\* this step hands the text of u to update_field
FieldFrom(u) ==
    /\ updState[u] = UPDATE_FIELD
    /\ TextToUpdate(u)
    /\ SomeTextFrom(u)

\* no row of the store changes its Serial ID or Date in this step, unless the
\* step is the commit of the add conversation or a /delete
SerialIdAndDateKept ==
    /\ Len(store') = Len(store)
    /\ \A i \in 1..Len(store) :
          /\ store'[i][SerialID] = store[i][SerialID]
          /\ store'[i][Date] = store[i][Date]

(***************************************************************************)
(* C13 as claimed: at UPDATE_FIELD every input that is not a column other  *)
(* than Serial ID and Date keeps the conversation at UPDATE_FIELD and      *)
(* leaves the store unchanged; no step of the update conversation changes  *)
(* the Serial ID or the Date of a row.                                     *)
(***************************************************************************)
C13_OnlyFieldsLeaveChooseField ==
    [][\A u \in Users :
          /\ (FieldFrom(u) /\ inbound'.body \notin OptionalColumns) =>
                /\ updState'[u] = UPDATE_FIELD
                /\ store' = store
          /\ (FieldFrom(u) \/ ValueFrom(u)) => SerialIdAndDateKept
      ]_vars

(***************************************************************************)
(* C13 amended: at UPDATE_FIELD every input other than 'Cancel' that is    *)
(* not a column other than Serial ID and Date is answered "Invalid field", *)
(* keeps the conversation at UPDATE_FIELD and leaves the store unchanged;  *)
(* 'Cancel' ends the conversation, the store unchanged; no step of the     *)
(* update conversation changes the Serial ID or the Date of a row.         *)
(***************************************************************************)
C13_InvalidFieldStays ==
    [][\A u \in Users :
          /\ (FieldFrom(u) /\ inbound'.body \notin OptionalColumns) =>
                /\ store' = store
                /\ IF inbound'.body = Cancel
                   THEN updState'[u] = END
                   ELSE /\ updState'[u] = UPDATE_FIELD
                        /\ reply' = <<"Invalid field">>
                        /\ user_data'[u] = user_data[u]
          /\ (FieldFrom(u) \/ ValueFrom(u)) => SerialIdAndDateKept
      ]_vars

\* 'Serial ID' was sent at UPDATE_FIELD and refused
C13_Witness ==
    \E u \in Users :
        /\ LastText(u, SerialID)
        /\ reply = <<"Invalid field">>
        /\ updState[u] = UPDATE_FIELD
        /\ "update_field" \notin DOMAIN user_data[u]

(***************************************************************************)
(* C14: at UPDATE_VALUE 'Back' removes the chosen field from user_data,    *)
(* returns the conversation to UPDATE_FIELD and leaves the store           *)
(* unchanged.                                                              *)
(***************************************************************************)
C14_BackDiscardsChosenField ==
    [][\A u \in Users :
          (ValueFrom(u) /\ inbound'.kind = "text" /\ inbound'.body = Back
             /\ "update_serial_id" \in DOMAIN user_data[u]) =>
             /\ "update_field" \notin DOMAIN user_data'[u]
             /\ updState'[u] = UPDATE_FIELD
             /\ store' = store
      ]_vars

C16_CancelEndsEverything ==
    [][\A u \in Users :
          (inbound'.from = u /\ inbound'.kind = "/cancel") =>
             /\ addState'[u] = END
             /\ updState'[u] = END
             /\ user_data'[u] = EmptyDict
             /\ store' = store
             /\ reply' = <<"Cancelled">>
      ]_vars

(***************************************************************************)
(* C17: whenever /add is received, also while an add or an update          *)
(* conversation of the participant is in progress, the in-progress record  *)
(* is reset to empty and the add conversation is at SERIAL_ID afterwards.  *)
(***************************************************************************)
C17_AddAlwaysRestarts ==
    [][\A u \in Users :
          (inbound'.from = u /\ inbound'.kind = "/add") =>
             /\ addState'[u] = SERIAL_ID
             /\ "research_data" \in DOMAIN user_data'[u]
             /\ user_data'[u]["research_data"] = EmptyDict
      ]_vars

\* this step ends a conversation of u: the commit of the add conversation, an
\* applied update, 'Cancel' at SERIAL_ID or at UPDATE_FIELD, or /cancel
EndsConversation(u) ==
    /\ inbound'.from = u
    /\ \/ inbound'.kind = "text" /\ addState[u] = NOTE /\ addState'[u] = END
       \/ ValueFrom(u) /\ updState'[u] = END
       \/ inbound'.kind = "text" /\ inbound'.body = Cancel /\ addState[u] = SERIAL_ID
       \/ FieldFrom(u) /\ inbound'.body = Cancel
       \/ inbound'.kind = "/cancel"

(***************************************************************************)
(* C18: user_data lives for one conversation: after the commit of an add   *)
(* conversation, after an applied update, after 'Cancel' at SERIAL_ID or   *)
(* at UPDATE_FIELD and after /cancel, user_data of the participant holds   *)
(* no research_data, no update_serial_id, no update_record and no          *)
(* update_field; a participant in no conversation has empty user_data.     *)
(***************************************************************************)
C18_SessionEndsWithConversation ==
    [][\A u \in Users :
          /\ EndsConversation(u) => user_data'[u] = EmptyDict
          /\ (addState'[u] = END /\ updState'[u] = END) => user_data'[u] = EmptyDict
      ]_vars

\* an update was applied while the add conversation was in progress: the
\* session is empty although the add conversation goes on
C18_Witness ==
    \E u \in Users :
        /\ inbound.from = u
        /\ reply = <<"Updated">>
        /\ updState[u] = END
        /\ addState[u] # END
        /\ user_data[u] = EmptyDict

\* this step is the commit of the add conversation of u
Commits(u) ==
    inbound'.from = u /\ inbound'.kind = "text" /\ addState[u] = NOTE /\ addState'[u] = END

\* this step applies an update of u
Applies(u) == ValueFrom(u) /\ updState'[u] = END

(***************************************************************************)
(* C19: updates are handled one at a time, to completion; under every      *)
(* interleaving of the messages of two participants the store changes only *)
(* as the one handler running says: a commit appends its record to the     *)
(* rows the store holds, a /delete removes the rows of its Serial ID only, *)
(* an applied update sets its field in the first row of its target and     *)
(* changes no other value, any other step leaves the store alone.  So a    *)
(* committed record stays until a /delete of its Serial ID, and an applied *)
(* update stays until that field is updated again or the row deleted.      *)
(***************************************************************************)
C19_NoLostWrite ==
    [][LET u == inbound'.from
       IN  IF Commits(u)
           THEN /\ Len(store') = Len(store) + 1
                /\ SubSeq(store', 1, Len(store)) = store
                /\ \A c \in DOMAIN research_data(u) \ {Note} :
                      store'[Len(store')][c] = research_data(u)[c]
           ELSE IF inbound'.kind = "/delete"
           THEN LET Other(row) == row[SerialID] # join(inbound'.body)
                IN  store' = SelectSeq(store, Other)
           ELSE IF Applies(u)
           THEN LET i == FirstMatch(store, user_data[u]["update_serial_id"])
                    f == user_data[u]["update_field"]
                IN  /\ Len(store') = Len(store)
                    /\ \A j \in 1..Len(store) : \A c \in Columns :
                          (j # i \/ c # f) => store'[j][c] = store[j][c]
                    /\ i # 0 => store'[i][f] = IF inbound'.body = Skip
                                               THEN NA ELSE inbound'.body
           ELSE store' = store
      ]_vars

\* the second participant committed a record while the first was in the
\* middle of an add conversation; the store holds the earlier record with
\* its note
C19_Witness ==
    /\ inbound.from = "u2"
    /\ reply = <<"Summary:", "Saved">>
    /\ addState["u1"] \notin {END, SERIAL_ID}
    /\ Len(store) = 2
    /\ store[1][Note] = Note

(***************************************************************************)
(* C20: user_data and the conversation states are per participant: an     *)
(* update from one participant changes neither the step of the add or      *)
(* update conversation of another participant nor anything in the other's  *)
(* user_data (research_data, update_serial_id, update_record,              *)
(* update_field), under every interleaving of their messages.              *)
(***************************************************************************)
C20_SessionPerParticipant ==
    [][\A u \in Users :
          inbound'.from # u =>
             /\ addState'[u] = addState[u]
             /\ updState'[u] = updState[u]
             /\ user_data'[u] = user_data[u]
      ]_vars

\* the second participant cancelled while the first was in an update
\* conversation with a field chosen: the first still has its session
C20_Witness ==
    /\ inbound.from = "u2"
    /\ inbound.kind = "/cancel"
    /\ updState["u1"] = UPDATE_VALUE
    /\ "update_field" \in DOMAIN user_data["u1"]
    /\ user_data["u2"] = EmptyDict

(***************************************************************************)
(* The validators, in the add and in the update conversation.              *)
(***************************************************************************)
\* this step hands a text of u other than 'Skip' and 'Back' to the handler
\* that validates a value for column c
ValueFor(u, c) ==
    /\ inbound'.from = u
    /\ inbound'.kind = "text"
    /\ inbound'.body \notin {Skip, Back}
    /\ IF addState[u] # END
       THEN addState[u] \in PARKING_ANGEL..SPEED_RATE /\ c = StepColumn(addState[u])
       ELSE /\ updState[u] = UPDATE_VALUE
            /\ "update_field" \in DOMAIN user_data[u]
            /\ c = user_data[u]["update_field"]

ColumnLow(c) == IF c = SeatHight THEN 1 ELSE 0
ColumnHigh(c) == IF c = BatteryLevel THEN 4 ELSE 10
ErrorPrompt(c) ==
    IF c = ParkingAngel THEN "Select 'True' or 'False':"
    ELSE IF c = BatteryLevel THEN "Select a valid battery level (0-4):"
    ELSE IF c = SeatHight THEN "Select a valid height (1-10):"
    ELSE "Select a valid rate (0-10):"

\* the step took v as the value of column c
TakenAs(u, c, v) ==
    IF addState[u] # END
    THEN /\ addState'[u] = addState[u] + 1
         /\ "research_data" \in DOMAIN user_data'[u]
         /\ c \in DOMAIN user_data'[u]["research_data"]
         /\ user_data'[u]["research_data"][c] = v
    ELSE /\ updState'[u] = END
         /\ reply' = <<"Updated">>
         /\ LET i == FirstMatch(store, user_data[u]["update_serial_id"])
            IN  i # 0 => store'[i][c] = v

\* the step refused the text: the prompt of the column again, nothing changed
Refused(u, c) ==
    /\ reply' = <<ErrorPrompt(c)>>
    /\ addState'[u] = addState[u]
    /\ updState'[u] = updState[u]
    /\ user_data'[u] = user_data[u]
    /\ store' = store

\* only the characters 0..9, and at least one
AsciiDigitsOnly(t) == Len(t) > 0 /\ \A i \in 1..Len(t) : Occurs(AsciiDigits, t[i])

(***************************************************************************)
(* C21: for every integer column with range lo..hi (rates 0..10, battery   *)
(* 0..4, seat height 1..10), in the add and in the update conversation,    *)
(* the decimal literal of every value in lo..hi is accepted, and refused   *)
(* are the literals of lo-1 and hi+1, the empty text and every text with a *)
(* character that is not one of 0..9 (words, signed and decimal forms).    *)
(***************************************************************************)
C21_RangeValidator ==
    [][\A u \in Users : \A c \in ValidatedColumns \ {ParkingAngel} :
          ValueFor(u, c) =>
             LET t == inbound'.body
                 lo == ColumnLow(c)
                 hi == ColumnHigh(c)
             IN  IF \E n \in lo..hi : t = str(n)
                 THEN TakenAs(u, c, t)
                 ELSE (\/ ~AsciiDigitsOnly(t)
                       \/ t = str(hi + 1)
                       \/ lo > 0 /\ t = str(lo - 1)) => Refused(u, c)
      ]_vars

\* t spells the lowercase token tok in some letter case
Spells(t, tok) ==
    /\ Len(t) = Len(tok)
    /\ \A i \in 1..Len(tok) :
          \/ t[i] = tok[i]
          \/ Occurs(LowerCase, tok[i]) /\ t[i] = UpperCase[IndexIn(LowerCase, tok[i])]

(***************************************************************************)
(* C22: for Is Straight Parking Angel, in the add and in the update        *)
(* conversation, 'true' and 'false' in any letter case are accepted and    *)
(* stored as the lowercase token; every other text but 'Skip' and 'Back'   *)
(* is refused; the column of every stored row holds 'true', 'false' or     *)
(* "N/A".                                                                  *)
(***************************************************************************)
C22_BooleanValidator ==
    [][/\ \A u \in Users :
             ValueFor(u, ParkingAngel) =>
                LET t == inbound'.body
                IN  IF Spells(t, TrueText) THEN TakenAs(u, ParkingAngel, TrueText)
                    ELSE IF Spells(t, FalseText) THEN TakenAs(u, ParkingAngel, FalseText)
                    ELSE Refused(u, ParkingAngel)
       /\ \A i \in 1..Len(store') : store'[i][ParkingAngel] \in {TrueText, FalseText, NA}
      ]_vars

\* 'TRUE' was sent as the new value and the row holds 'true'
C22_Witness ==
    /\ inbound.kind = "text"
    /\ inbound.body = <<"T", "R", "U", "E">>
    /\ reply = <<"Updated">>
    /\ Len(store) = 1
    /\ store[1][ParkingAngel] = TrueText

(***************************************************************************)
(* C23: the identifier of /delete and of /update is the rest of the        *)
(* command line as typed, spaces included: for every Serial ID the add     *)
(* conversation has stored, /delete with that text removes the rows stored *)
(* under it, and /update with that text enters the update of that record.  *)
(***************************************************************************)
C23_IdIsRestOfLine ==
    [][\A u \in Users :
          (/\ inbound'.from = u
           /\ inbound'.kind \in {"/delete", "/update"}
           /\ "line" \in DOMAIN inbound'
           /\ \E i \in 1..Len(store) : store[i][SerialID] = inbound'.line) =>
             IF inbound'.kind = "/delete"
             THEN /\ reply' = <<"Deleted">>
                  /\ \A i \in 1..Len(store') : store'[i][SerialID] # inbound'.line
             ELSE updState[u] = END =>
                     /\ updState'[u] = UPDATE_FIELD
                     /\ user_data'[u]["update_serial_id"] = inbound'.line
      ]_vars

(***************************************************************************)
(* C24: while the add conversation of a participant is at a step,          *)
(* user_data holds research_data; while the update conversation is at      *)
(* UPDATE_FIELD or UPDATE_VALUE it holds update_serial_id, and at          *)
(* UPDATE_VALUE update_field as well; under every sequence of commands and *)
(* messages of the participant, one conversation entered inside the other  *)
(* included.                                                               *)
(***************************************************************************)
C24_SessionKeysPresent ==
    \A u \in Users :
        /\ addState[u] # END => "research_data" \in DOMAIN user_data[u]
        /\ updState[u] # END => "update_serial_id" \in DOMAIN user_data[u]
        /\ updState[u] = UPDATE_VALUE => "update_field" \in DOMAIN user_data[u]

(***************************************************************************)
(* C25: while the add conversation is at step k, research_data holds a     *)
(* value for the column of every step before k, whatever valid and invalid *)
(* inputs, 'Skip' and 'Back' led there; so the row written at the commit   *)
(* has a value in every column.                                            *)
(***************************************************************************)
C25_EarlierFieldsPresent ==
    [][\A u \in Users :
          /\ addState'[u] # END =>
                /\ "research_data" \in DOMAIN user_data'[u]
                /\ \A j \in SERIAL_ID..(addState'[u] - 1) :
                      StepColumn(j) \in DOMAIN user_data'[u]["research_data"]
          /\ Commits(u) =>
                /\ Len(store') = Len(store) + 1
                /\ \A c \in Columns : store'[Len(store')][c] # <<>>
      ]_vars

\* 'Back' twice from NOTE: the conversation is at PEDALING_RATE and the
\* record holds the columns of all twelve steps before NOTE
C25_Witness ==
    \E u \in Users :
        /\ LastText(u, Back)
        /\ addState[u] = PEDALING_RATE
        /\ HasData(u)
        /\ DOMAIN research_data(u) = {StepColumn(j) : j \in SERIAL_ID..SPEED_RATE}

\* the messages the add conversation still takes from state k when every
\* one of them is 'Skip'
Remaining(k) == IF k = END THEN 0 ELSE NOTE + 1 - k

(***************************************************************************)
(* C26: at every step of the add conversation 'Skip' advances: to the next *)
(* step, from NOTE to the commit and the end of the conversation; so from  *)
(* SERIAL_ID thirteen messages 'Skip', from step k thirteen less k, end    *)
(* the conversation with the record saved.                                 *)
(***************************************************************************)
C26_SkipAlwaysAdvances ==
    [][\A u \in Users :
          (addState[u] # END /\ TextFrom(u, Skip)) =>
             /\ Remaining(addState[u]) <= 13
             /\ Remaining(addState'[u]) = Remaining(addState[u]) - 1
             /\ addState[u] # NOTE => addState'[u] = addState[u] + 1
             /\ addState[u] = NOTE =>
                   /\ Len(store') = Len(store) + 1
                   /\ reply' = <<"Summary:", "Saved">>
      ]_vars

\* thirteen times 'Skip': the record saved has the Serial ID 'Skip' and
\* "N/A" in every other prompted column
C26_Witness ==
    \E u \in Users :
        /\ LastText(u, Skip)
        /\ reply = <<"Summary:", "Saved">>
        /\ addState[u] = END
        /\ Len(store) = 1
        /\ store[1][SerialID] = Skip
        /\ \A c \in OptionalColumns : store[1][c] = NA

====
